---- MODULE Spec2Model ----
(***************************************************************************)
(* UWB geofencing alert system: the geofence engine (hysteresis state),    *)
(* the ingestion task of UWBCollector (receive loop, per-record pipeline,  *)
(* per-alert notification, dashboard broadcast) and the dashboard          *)
(* websocket handlers, as one asyncio event loop: a task runs until its    *)
(* next await, and other tasks run only while it is suspended there.       *)
(***************************************************************************)
EXTENDS Integers, Sequences, FiniteSets, TLC

\* ------------------------------------------------------------------ bounds
MaxTime == 2        \* the clock runs 0..MaxTime (seconds)
MaxReceived == 3    \* cap on total_received (records decoded over the run)

\* --------------------------------------------------------- configuration
\* settings.RETRIGGER_AFTER_SEC (read from the environment file)
RETRIGGER_AFTER_SEC == 1

\* tag ids the device reports, and the values TARGET_TAG_ID is drawn from
TagIds == {1, 2}
TargetChoices == {0, 1}

\* sample positions (metres): left of the zone, on its left edge, inside it
Points == {<<0, 2>>, <<1, 2>>, <<2, 2>>}

\* the dashboard websockets that ever connect
Clients == {1, 2}

\* the dashboard of the single-subscriber specification
Solo == {1}

\* records per decoded frame
BatchLens == {1, 2}

\* lifespan: max_retries
max_retries == 3

\* how an authenticate call can end: the device replies, it does not reply
\* within the timeout, or the send/receive raises
AuthOutcomes == {"reply", "timeout", "error"}

\* the one zone main.py builds from the settings
DANGER_ZONES ==
    << [min_x |-> 1, min_y |-> 1, max_x |-> 3, max_y |-> 3, name |-> "A"] >>

ZoneNames == {DANGER_ZONES[i].name : i \in 1..Len(DANGER_ZONES)}

ZoneByName(n) == CHOOSE z \in {DANGER_ZONES[i] : i \in 1..Len(DANGER_ZONES)} : z.name = n

\* ------------------------------------------------------------ dictionaries
EmptyMap == [k \in {} |-> 0]

Put(f, k, v) == [x \in (DOMAIN f) \cup {k} |-> IF x = k THEN v ELSE f[x]]

Pop(f, k) == [x \in (DOMAIN f) \ {k} |-> f[x]]

\* ------------------------------------------------------------------- Zone
\* Zone(...): __post_init__ raises ValueError for min_x >= max_x or
\* min_y >= max_y; otherwise the zone with its polygon exists
Zone_lenient(min_x, min_y, max_x, max_y, name) ==
    IF min_x > max_x THEN [ok |-> FALSE, error |-> "ValueError"]
    ELSE IF min_y > max_y THEN [ok |-> FALSE, error |-> "ValueError"]
    ELSE [ok |-> TRUE,
          zone |-> [min_x |-> min_x, min_y |-> min_y, max_x |-> max_x,
                    max_y |-> max_y, name |-> name]]

Zone(min_x, min_y, max_x, max_y, name) ==
    IF min_x >= max_x THEN [ok |-> FALSE, error |-> "ValueError"]
    ELSE IF min_y >= max_y THEN [ok |-> FALSE, error |-> "ValueError"]
    ELSE [ok |-> TRUE,
          zone |-> [min_x |-> min_x, min_y |-> min_y, max_x |-> max_x,
                    max_y |-> max_y, name |-> name]]

\* shapely: Polygon.contains is the interior, Polygon.touches the boundary
polygon_touches_never(zone, x, y) == FALSE

polygon_contains(zone, x, y) ==
    /\ zone.min_x < x /\ x < zone.max_x
    /\ zone.min_y < y /\ y < zone.max_y

polygon_touches(zone, x, y) ==
    \/ /\ x \in {zone.min_x, zone.max_x}
       /\ zone.min_y <= y /\ y <= zone.max_y
    \/ /\ y \in {zone.min_y, zone.max_y}
       /\ zone.min_x <= x /\ x <= zone.max_x

contains_point(zone, x, y) ==
    polygon_contains(zone, x, y) \/ polygon_touches(zone, x, y)

\* ------------------------------------------------------- GeofencingService
\* retrigger_after_sec is never None here: the constructor replaces None by
\* the setting, so only the timed branch of _can_fire is live.
can_fire_strict(f, key, now, retrigger) ==
    IF key \notin DOMAIN f THEN TRUE
    ELSE (now - f[key]) > retrigger

can_fire_always(f, key, now, retrigger) == TRUE

can_fire(f, key, now, retrigger) ==
    IF key \notin DOMAIN f THEN TRUE
    ELSE (now - f[key]) >= retrigger

mark_fired(f, key, now) == Put(f, key, now)

clear_if_outside_never(f, tag_id, zone, pos) == f

clear_if_outside_inverted(f, tag_id, zone, pos) ==
    IF contains_point(zone, pos[1], pos[2])
    THEN Pop(f, <<tag_id, zone.name>>)
    ELSE f

clear_if_outside_every_tag(f, tag_id, zone, pos) ==
    IF ~contains_point(zone, pos[1], pos[2])
    THEN [k \in {q \in DOMAIN f : q[2] # zone.name} |-> f[k]]
    ELSE f

clear_if_outside(f, tag_id, zone, pos) ==
    IF ~contains_point(zone, pos[1], pos[2])
    THEN Pop(f, <<tag_id, zone.name>>)
    ELSE f

\* the body of "for zone in self.zones" for zones i..Len(zs); st is
\* [fired, alerts]
RECURSIVE zone_loop(_, _, _, _, _, _, _)
zone_loop(zs, i, st, tag_id, pos, now, retrigger) ==
    IF i > Len(zs) THEN st
    ELSE
        LET zone == zs[i]
            f1 == clear_if_outside(st.fired, tag_id, zone, pos)
            key == <<tag_id, zone.name>>
            fire == /\ contains_point(zone, pos[1], pos[2])
                    /\ can_fire(f1, key, now, retrigger)
            st1 == IF fire
                   THEN [fired |-> mark_fired(f1, key, now),
                         alerts |-> Append(st.alerts,
                                      [tag_id |-> tag_id, zone |-> zone.name,
                                       position |-> pos])]
                   ELSE [fired |-> f1, alerts |-> st.alerts]
        IN zone_loop(zs, i + 1, st1, tag_id, pos, now, retrigger)

\* "if self.target_tag_ids and (tag_id not in self.target_tag_ids): continue"
\* (None and the empty set are both false)
skipped_never(targets, tag_id) == FALSE

skipped(targets, tag_id) == targets # {} /\ tag_id \notin targets

\* process_positions for the items of the positions dict from the j-th on, in
\* the dict's order (main.py always passes a one-item dict)
RECURSIVE items_loop(_, _, _, _, _, _, _)
items_loop(zs, items, j, st, now, targets, retrigger) ==
    IF j > Len(items) THEN st
    ELSE IF skipped(targets, items[j][1])
         THEN items_loop(zs, items, j + 1, st, now, targets, retrigger)
    ELSE items_loop(zs, items, j + 1,
                    zone_loop(zs, 1, st, items[j][1], items[j][2], now,
                              retrigger),
                    now, targets, retrigger)

\* the loops of process_positions; its first statement,
\* latest_positions.update(positions), is update_latest below
process_positions(zs, f, items, now, targets, retrigger) ==
    items_loop(zs, items, 1, [fired |-> f, alerts |-> <<>>], now, targets,
               retrigger)


update_latest(latest, items) ==
    [t \in (DOMAIN latest) \cup {items[j][1] : j \in 1..Len(items)} |->
        IF \E j \in 1..Len(items) : items[j][1] = t
        THEN LET last == CHOOSE j \in 1..Len(items) :
                            /\ items[j][1] = t
                            /\ \A k \in (j + 1)..Len(items) : items[k][1] # t
             IN items[last][2]
        ELSE latest[t]]

\* ------------------------------------------------------------- frame codec
\* A frame is held by what the decoder's checks see in it: which check rejects
\* it, or the records it carries.  TagLocationInfo keeps the fields the
\* pipeline reads for routing and evaluation (tag_id, x, y); battery and the
\* device timestamp are copied through unchanged and are not represented.
Records == {[tag_id |-> t, x |-> p[1], y |-> p[2]] : t \in TagIds, p \in Points}

Batches == UNION {[1..n -> Records] : n \in BatchLens}

BadKinds == {"short", "bad_header", "bad_type", "zero_tags", "truncated"}

Frames == {[kind |-> k, records |-> <<>>] : k \in BadKinds}
          \cup {[kind |-> "ok", records |-> b] : b \in Batches}

parse_tag_location_data(frame) ==
    IF frame.kind = "ok" THEN frame.records ELSE <<>>

\* ----------------------------------------------- the decoder, byte by byte
\* A byte string is a sequence of 0..255; offsets are 0-based as in the code.
HEADER == 52319             \* 0xCC5F
TYPE_RELATIVE == 129        \* 0x81
TYPE_LONLAT == 180          \* 0xB4
TYPE_GLOBAL == 181          \* 0xB5
TAG_RECORD_SIZE == 23

At(d, o) == d[o + 1]

\* struct.unpack of '>H', '>I', '>i', '>h' at offset o.  The checker's
\* integers are 32-bit signed: unpack_I is exact for values below 2^31 (the
\* sample byte strings keep unsigned fields there), and unpack_i takes the
\* sign from the first byte so that no intermediate value leaves the range.
unpack_H(d, o) == At(d, o) * 256 + At(d, o + 1)

unpack_I(d, o) ==
    ((At(d, o) * 256 + At(d, o + 1)) * 256 + At(d, o + 2)) * 256 + At(d, o + 3)

unpack_i(d, o) ==
    LET b0 == At(d, o)
        s0 == IF b0 >= 128 THEN b0 - 256 ELSE b0
    IN ((s0 * 256 + At(d, o + 1)) * 256 + At(d, o + 2)) * 256 + At(d, o + 3)

unpack_h(d, o) ==
    LET u == unpack_H(d, o)
    IN IF u >= 32768 THEN u - 65536 ELSE u

header_matches_any(header) == TRUE

header_matches(header) == header = HEADER

coordinate_type(frame_type) ==
    IF frame_type = TYPE_RELATIVE THEN "relative"
    ELSE IF frame_type = TYPE_LONLAT THEN "longitude_latitude"
    ELSE IF frame_type = TYPE_GLOBAL THEN "global"
    ELSE "none"

\* one TagLocationInfo from the 23 bytes at offset o.  A coordinate is the
\* quotient <<numerator, denominator>> the code computes (x_coord / 100.0,
\* or x_coord / 10000000.0 for longitude/latitude frames).
tag_info(d, o, frame_type) ==
    LET flags == At(d, o + 16)
        lonlat == frame_type = TYPE_LONLAT
    IN [tag_id |-> unpack_I(d, o),
        x_coordinate |-> <<unpack_i(d, o + 4), IF lonlat THEN 10000000 ELSE 100>>,
        y_coordinate |-> <<unpack_i(d, o + 8), IF lonlat THEN 10000000 ELSE 100>>,
        z_coordinate |-> IF lonlat THEN <<0, 1>> ELSE <<unpack_h(d, o + 12), 100>>,
        map_id |-> At(d, o + 14),
        battery |-> At(d, o + 15),
        sleep_flag |-> (flags \div 16) % 16 # 0,
        charging_flag |-> flags % 16 # 0,
        timestamp |-> unpack_I(d, o + 17),
        floor_number |-> At(d, o + 21),
        positioning_indication |-> At(d, o + 22),
        coordinate_type |-> coordinate_type(frame_type)]

\* "for _ in range(num_tags)" from iteration k on; a read past the end of the
\* data raises (struct.error, IndexError)
RECURSIVE parse_loop(_, _, _, _, _, _)
parse_loop(d, frame_type, num_tags, k, offset, acc) ==
    IF k >= num_tags THEN [raised |-> FALSE, tags |-> acc, broke |-> FALSE]
    ELSE IF offset + TAG_RECORD_SIZE > Len(d) - 4
         THEN [raised |-> FALSE, tags |-> acc, broke |-> TRUE]
    ELSE IF offset + TAG_RECORD_SIZE > Len(d)
         THEN [raised |-> TRUE, tags |-> acc, broke |-> FALSE]
    ELSE parse_loop(d, frame_type, num_tags, k + 1, offset + TAG_RECORD_SIZE,
                    Append(acc, tag_info(d, offset, frame_type)))

\* expected_size = 4 + (num_tags * 23) + 4
expected_size_no_footer(num_tags) == 4 + (num_tags * TAG_RECORD_SIZE)

expected_size(num_tags) == 4 + (num_tags * TAG_RECORD_SIZE) + 4

\* the body of the try block
parse_try(d) ==
    LET header == unpack_H(d, 0)
        frame_type == At(d, 2)
        num_tags == At(d, 3)
    IN IF ~header_matches(header) THEN [raised |-> FALSE, tags |-> <<>>, broke |-> FALSE]
       ELSE IF coordinate_type(frame_type) = "none"
            THEN [raised |-> FALSE, tags |-> <<>>, broke |-> FALSE]
       ELSE IF num_tags = 0 THEN [raised |-> FALSE, tags |-> <<>>, broke |-> FALSE]
       ELSE IF Len(d) < expected_size(num_tags) THEN [raised |-> FALSE, tags |-> <<>>, broke |-> FALSE]
       ELSE parse_loop(d, frame_type, num_tags, 0, 4, <<>>)

\* _parse_tag_location_data on bytes: what it returns, and whether an
\* exception leaves it ("except Exception" turns one into the empty list)
parse_tag_location_bytes(d) ==
    IF Len(d) < 5 THEN [raised |-> FALSE, tags |-> <<>>, broke |-> FALSE]
    ELSE LET r == parse_try(d)
         IN IF r.raised THEN [raised |-> FALSE, tags |-> <<>>, broke |-> FALSE] ELSE r

NoResult == [raised |-> FALSE, tags |-> <<>>, broke |-> FALSE, pending |-> TRUE]

\* ---- sample byte strings
pack_H(v) == <<v \div 256, v % 256>>

pack_I(v) ==
    <<(v \div 16777216) % 256, (v \div 65536) % 256, (v \div 256) % 256, v % 256>>

pack_i(v) ==
    IF v >= 0 THEN pack_I(v)
    ELSE LET w == (v + 2147483647) + 1
             b == pack_I(w)
         IN <<b[1] + 128, b[2], b[3], b[4]>>

pack_h(v) == pack_H(IF v < 0 THEN v + 65536 ELSE v)

\* the 23 bytes of a tag record as the device lays them out
pack_tag(t) ==
    pack_I(t.tag_id) \o pack_i(t.x) \o pack_i(t.y) \o pack_h(t.z)
    \o <<t.map_id, t.battery, t.flags>> \o pack_I(t.timestamp)
    \o <<t.floor, t.indication>>

SampleTags ==
    {[tag_id |-> 1, x |-> 200, y |-> -150, z |-> -1, map_id |-> 1,
      battery |-> 90, flags |-> 16, timestamp |-> 1000, floor |-> 2,
      indication |-> 1],
     [tag_id |-> 2147483647, x |-> -2147483647, y |-> 2147483647, z |-> 32767,
      map_id |-> 255, battery |-> 0, flags |-> 1, timestamp |-> 2147483647,
      floor |-> 0, indication |-> 255]}

SampleHeaders == {HEADER, 52318}
SampleTypes == {TYPE_RELATIVE, TYPE_LONLAT, TYPE_GLOBAL, 0}
SampleCounts == {0, 1, 2, 3}
SampleBodies == UNION {[1..n -> SampleTags] : n \in 0..2}
SampleCuts == {0, 3, 4, 5, 26, 27, 30, 31, 53, 54}

RECURSIVE pack_tags(_)
pack_tags(ts) ==
    IF ts = <<>> THEN <<>> ELSE pack_tag(Head(ts)) \o pack_tags(Tail(ts))

SampleFooters == {<<0, 0, 0, 0>>, <<170, 187, 1, 2>>}

pack_frame(header, frame_type, count, body, footer) ==
    pack_H(header) \o <<frame_type, count>> \o pack_tags(body) \o footer

\* whole frames and their prefixes
SampleData ==
    {LET full == pack_frame(h, t, n, b, f)
     IN SubSeq(full, 1, IF cut < Len(full) THEN cut ELSE Len(full)) :
        h \in SampleHeaders, t \in SampleTypes, n \in SampleCounts,
        b \in SampleBodies, cut \in SampleCuts, f \in SampleFooters}

\* ------------------------------------------------------- CRC and auth packet
\* bitwise exclusive or of two naturals (Python's ^ on ints)
RECURSIVE xor(_, _)
xor(a, b) ==
    IF a = 0 THEN b
    ELSE IF b = 0 THEN a
    ELSE (((a % 2) + (b % 2)) % 2) + 2 * xor(a \div 2, b \div 2)

CRC_INIT == 65535       \* 0xFFFF

CRC_POLY == 40961       \* 0xA001

\* one pass of the inner loop: if crc & 1: crc = (crc >> 1) ^ 0xA001
\* else: crc >>= 1
crc_shift_no_poly(crc) == crc \div 2

crc_shift(crc) ==
    IF crc % 2 = 1 THEN xor(crc \div 2, CRC_POLY) ELSE crc \div 2

\* for _ in range(8); the test on the value computes it before the next pass
RECURSIVE crc_shifts(_, _)
crc_shifts(crc, n) ==
    IF n = 0 THEN crc
    ELSE LET shifted == crc_shift(crc)
         IN IF shifted >= 0 THEN crc_shifts(shifted, n - 1) ELSE shifted

\* for byte in data: crc ^= byte; the eight shifts
RECURSIVE crc_bytes_loop(_, _, _)
crc_bytes_loop(d, k, crc) ==
    IF k > Len(d) THEN crc
    ELSE LET after == crc_shifts(xor(crc, d[k]), 8)
         IN IF after >= 0 THEN crc_bytes_loop(d, k + 1, after) ELSE after

calculate_crc16_modbus(d) == crc_bytes_loop(d, 1, CRC_INIT)

AUTH_HEADER == 52319    \* 0xCC5F

AUTH_TYPE == 39         \* 0x27

AUTH_TAIL == 43707      \* 0xAABB

\* _create_auth_packet, from the encoded user name and the 32 characters of
\* the salted digest (md5 itself is not computed: the digest is an input)
auth_crc_data(username_bytes, password_bytes) ==
    <<AUTH_TYPE>> \o pack_I(Len(username_bytes)) \o username_bytes
        \o pack_I(Len(password_bytes)) \o password_bytes

create_auth_packet(username_bytes, password_bytes) ==
    LET crc_data == auth_crc_data(username_bytes, password_bytes)
        crc == calculate_crc16_modbus(crc_data)
    IN pack_H(AUTH_HEADER) \o crc_data \o pack_H(crc) \o pack_H(AUTH_TAIL)

\* sample inputs: every string of at most three sample bytes, the nine
\* characters "123456789", and two credentials
CrcSampleBytes == {0, 1, 49, 128, 255}

CheckString == <<49, 50, 51, 52, 53, 54, 55, 56, 57>>

CrcSampleData ==
    {<<>>, CheckString}
        \cup {<<a>> : a \in CrcSampleBytes}
        \cup {<<a, b>> : a \in CrcSampleBytes, b \in CrcSampleBytes}
        \cup {<<a, b, c>> : a \in CrcSampleBytes, b \in CrcSampleBytes,
                            c \in CrcSampleBytes}

\* "admin", "" and "u1"
SampleUsernames == {<<97, 100, 109, 105, 110>>, <<>>, <<117, 49>>}

\* two hexdigest strings: 32 characters of 0-9a-f
SampleDigests ==
    {[i \in 1..32 |-> IF i % 2 = 1 THEN 48 + (i % 10) ELSE 97 + (i % 6)],
     [i \in 1..32 |-> IF i % 3 = 0 THEN 102 ELSE 48 + ((7 * i) % 10)]}

\* the target-tag filter of _process_location_update
filter_targets_all(target, ts) == ts

filter_targets(target, ts) ==
    IF target = 0 THEN ts
    ELSE SelectSeq(ts, LAMBDA t : t.tag_id = target)

\* ---------------------------------------------------------------- messages
NoMsg == [type |-> "none"]

AlertMsg(a, now) ==
    [type |-> "alert", tag_id |-> a.tag_id, zone_name |-> a.zone,
     position |-> a.position, timestamp |-> now * 1000]

PositionUpdate(rec, danger) ==
    [type |-> "position_update", tag_id |-> rec.tag_id, x |-> rec.x,
     y |-> rec.y, in_danger_zone |-> danger]

\* GeofencingService.get_status()["zones"]: one entry per zone, in order
\* (centre and corners follow from the bounds and are not represented)
get_status_zones(zs) ==
    [i \in 1..Len(zs) |->
        [name |-> zs[i].name, min_x |-> zs[i].min_x, min_y |-> zs[i].min_y,
         max_x |-> zs[i].max_x, max_y |-> zs[i].max_y]]

InitialState(zs, latest) ==
    [type |-> "initial_state", zones |-> get_status_zones(zs),
     positions |-> latest]

\* what the history keeps of a published message
Published(m) ==
    IF m.type = "alert"
    THEN [type |-> "alert", tag_id |-> m.tag_id, zone_name |-> m.zone_name]
    ELSE [type |-> "position_update", tag_id |-> m.tag_id,
          in_danger_zone |-> m.in_danger_zone]

NoEv == [valid |-> FALSE]

NoCall == [valid |-> FALSE]

NoZone == [ok |-> FALSE, pending |-> TRUE]

NoProbe == [valid |-> FALSE]

NoCrc == -1

NoPacket == <<>>

\* ------------------------------------------------------------------- state
VARIABLES
    clock,              \* time.time(), in whole seconds; the two reads of one
                        \* process_positions call (_can_fire, _mark_fired)
                        \* are microseconds apart and see the same value
    target_tag_id,      \* UWBCollector.target_tag_id (settings.TARGET_TAG_ID)
    fired,              \* GeofencingService._fired: (tag_id, zone name) -> time
    geo_latest,         \* GeofencingService.latest_positions
    latest_positions,   \* app_state.latest_positions
    dashboard_clients,  \* app_state.dashboard_clients
    running,            \* UWBCollector.running
    total_received,     \* UWBCollector.total_received
    lifespan,           \* where lifespan stands: "connect" (awaiting connect()),
                        \* "retry_sleep", "auth" (awaiting authenticate()),
                        \* "serving" (at its yield), "shutdown" (disconnect()
                        \* was called)
    attempt,            \* lifespan: the retry loop's variable; 0 once the loop
                        \* is left (it is not read again)
    websocket,          \* UWBCollector.websocket: "none", "open" or "closed"
    tasks,              \* how many times create_task(collect_realtime_data())
                        \* ran
    auth,               \* history: how the authenticate call ended and what it
                        \* returned, kept until the task takes its first step
    pc,                 \* where the ingestion task stands ("none": no task)
    tags,               \* collect_realtime_data: the decoded batch, live until
                        \* the pipeline takes its first record
    target_tags,        \* _process_location_update: the part of the filtered
                        \* batch the for loop has not finished (head: the
                        \* record in progress)
    idx,                \* position of that record in the filtered batch
    alerts,             \* alerts of the record in progress
    aidx,               \* index of the alert being sent
    notify_failed,      \* history: a notification of the record in progress
                        \* has failed
    msg,                \* _broadcast_to_dashboard: the message
    it_size,            \* the set iterator's recorded size
    it_start,           \* the set as it was when the sweep began
    visited,            \* clients the sweep has attempted
    disconnected,       \* _broadcast_to_dashboard: failed clients
    cur,                \* client of the send in progress
    delivered,          \* clients that received msg
    hstate,             \* per client: where websocket_dashboard stands
    chan,               \* per client: "open" or "broken" transport
    ev,                 \* history: the process_positions call of the record
    ever_alerted,       \* history: the (tag_id, zone name) pairs alerted so far
    emitted,            \* history: messages published for the record in progress
    last_recv,          \* history: how the latest receive ended
    data,               \* the byte string handed to the decoder on its own
    decoded,            \* what the decoder returned for data
    zones,              \* GeofencingService.zones
    retrigger_after_sec,\* GeofencingService.retrigger_after_sec
    target_tag_ids,     \* GeofencingService.target_tag_ids ({}: None, as in
                        \* main.py)
    call,               \* history: the latest process_positions call made on
                        \* the engine on its own
    zone_args,          \* the arguments of a Zone(...) call made on its own
    zone_made,          \* what that call gave: the zone, or the error
    probe,              \* history: a point tested against that zone
    crc_data,           \* the bytes given to _calculate_crc16_modbus on its own
    crc,                \* what it returned
    credentials,        \* a collector's user name and salted digest
    auth_packet         \* what _create_auth_packet returned for them

decodeVars == <<data, decoded>>
engineUnitVars == <<zones, retrigger_after_sec, target_tag_ids, call>>
zoneVars == <<zone_args, zone_made, probe>>
crcVars == <<crc_data, crc, credentials, auth_packet>>
unitVars == <<decodeVars, engineUnitVars, zoneVars, crcVars>>
startVars == <<attempt, websocket, tasks, auth>>
engineVars == <<fired, geo_latest, latest_positions, ev, ever_alerted>>
sweepVars == <<msg, it_size, it_start, visited, disconnected, cur, delivered>>
batchVars == <<tags, target_tags, idx, alerts, aidx, notify_failed>>
clientVars == <<hstate, chan>>
vars == <<unitVars, startVars, clock, target_tag_id, engineVars, dashboard_clients, running,
          total_received, lifespan, pc, batchVars, sweepVars, clientVars,
          emitted, last_recv>>

NoAuth == [outcome |-> "none"]

\* lifespan is at its yield or past it: the server accepts connections
Started == lifespan \in {"serving", "shutdown"}

\* Startup is over and the ingestion task, if there is one, is suspended in an
\* await; only then do other tasks run.
Yielded ==
    /\ Started
    /\ pc \in {"none", "created", "recv", "notify_connect", "notify_sleep",
              "send", "send_stalled", "done"}

\* the program after the constructors, at lifespan's first connect attempt
Constructed ==
    /\ clock = 0
    /\ target_tag_id \in TargetChoices
    /\ fired = EmptyMap
    /\ geo_latest = EmptyMap
    /\ latest_positions = EmptyMap
    /\ dashboard_clients = {}
    /\ running = FALSE
    /\ total_received = 0
    /\ lifespan = "connect"
    /\ attempt = 1
    /\ websocket = "none"
    /\ tasks = 0
    /\ auth = NoAuth
    /\ pc = "none"
    /\ tags = <<>> /\ target_tags = <<>> /\ idx = 0
    /\ alerts = <<>> /\ aidx = 0 /\ notify_failed = FALSE
    /\ msg = NoMsg /\ it_size = 0 /\ it_start = {} /\ visited = {}
    /\ disconnected = {} /\ cur = 0 /\ delivered = {}
    /\ hstate = [c \in Clients |-> "new"]
    /\ chan = [c \in Clients |-> "open"]
    /\ ev = NoEv
    /\ ever_alerted = {}
    /\ emitted = <<>>
    /\ last_recv = "none"

\* the unit-level variables when their unit is not exercised
DecodeIdle == data = <<>> /\ decoded = NoResult

EngineIdle ==
    /\ zones = DANGER_ZONES
    /\ retrigger_after_sec = RETRIGGER_AFTER_SEC
    /\ target_tag_ids = {}
    /\ call = NoCall

ZoneIdle ==
    /\ zone_args = [min_x |-> 0, min_y |-> 0, max_x |-> 0, max_y |-> 0]
    /\ zone_made = NoZone
    /\ probe = NoProbe

CrcIdle ==
    /\ crc_data = <<>>
    /\ crc = NoCrc
    /\ credentials = [username |-> <<>>, digest |-> <<>>]
    /\ auth_packet = NoPacket

Init ==
    /\ Constructed
    /\ DecodeIdle
    /\ EngineIdle
    /\ ZoneIdle
    /\ CrcIdle

\* time passes while the event loop waits
Tick ==
    /\ Yielded
    /\ clock < MaxTime
    /\ clock' = clock + 1
    /\ UNCHANGED <<unitVars, startVars, target_tag_id, engineVars, dashboard_clients,
                   running, total_received, lifespan, pc, batchVars,
                   sweepVars, clientVars, emitted, last_recv>>

\* ---------------------------------------------- _broadcast_to_dashboard
\* entry: disconnected = set(), and the for statement takes an iterator of
\* the live set (not a copy); sofar is the history before this message
StartBroadcast(m, sofar) ==
    /\ msg' = m
    /\ it_size' = Cardinality(dashboard_clients)
    /\ it_start' = dashboard_clients
    /\ visited' = {}
    /\ disconnected' = {}
    /\ delivered' = {}
    /\ cur' = 0
    /\ emitted' = Append(sofar, Published(m))
    /\ pc' = "bcast"

\* one step of "for client in app_state.dashboard_clients".  The iterator
\* raises RuntimeError when the set's size differs from the size it recorded;
\* over a set changed at equal size it may pass over elements.  When the
\* iterator is exhausted: app_state.dashboard_clients -= disconnected.
SweepNext ==
    /\ pc = "bcast"
    /\ \/ /\ Cardinality(dashboard_clients) # it_size
          /\ pc' = "bcast_raise"
          /\ UNCHANGED <<dashboard_clients, visited, cur>>
       \/ /\ Cardinality(dashboard_clients) = it_size
          /\ \E c \in dashboard_clients \ visited :
                /\ cur' = c
                /\ visited' = visited \cup {c}
                /\ pc' = "send"
          /\ UNCHANGED dashboard_clients
       \/ /\ Cardinality(dashboard_clients) = it_size
          /\ (dashboard_clients \ visited = {}) \/ (dashboard_clients # it_start)
          /\ dashboard_clients' = dashboard_clients \ disconnected
          /\ pc' = "bcast_end"
          /\ UNCHANGED <<visited, cur>>
    /\ UNCHANGED <<unitVars, startVars, clock, target_tag_id, engineVars, running, total_received,
                   lifespan, batchVars, msg, it_size, it_start, disconnected,
                   delivered, clientVars, emitted, last_recv>>

\* await client.send_json(message) completes
SendOk ==
    /\ pc = "send"
    /\ chan[cur] = "open"
    /\ delivered' = delivered \cup {cur}
    /\ pc' = "bcast"
    /\ UNCHANGED <<unitVars, startVars, clock, target_tag_id, engineVars, dashboard_clients,
                   running, total_received, lifespan, batchVars, msg,
                   it_size, it_start, visited, disconnected, cur, clientVars,
                   emitted, last_recv>>

\* await client.send_json(message) raises: except: disconnected.add(client)
SendFail ==
    /\ pc = "send"
    /\ chan[cur] = "broken"
    /\ disconnected' = disconnected \cup {cur}
    /\ pc' = "bcast"
    /\ UNCHANGED <<unitVars, startVars, clock, target_tag_id, engineVars, dashboard_clients,
                   running, total_received, lifespan, batchVars, msg,
                   it_size, it_start, visited, delivered, cur, clientVars,
                   emitted, last_recv>>

\* the delivery stalls: the send neither completes nor fails (the peer has
\* stopped reading and the write buffer is full); the await has no timeout
SendStall ==
    /\ pc = "send"
    /\ chan[cur] = "open"
    /\ pc' = "send_stalled"
    /\ UNCHANGED <<unitVars, startVars, clock, target_tag_id, engineVars, dashboard_clients,
                   running, total_received, lifespan, batchVars, sweepVars,
                   clientVars, emitted, last_recv>>

\* ------------------------------------------- _send_alert and the notification
\* _send_buzzer_vibration: websockets.connect succeeded and the enable request
\* was sent; the task now sleeps in asyncio.sleep(1)
NotifyConnected ==
    /\ pc = "notify_connect"
    /\ pc' = "notify_sleep"
    /\ UNCHANGED <<unitVars, startVars, clock, target_tag_id, engineVars, dashboard_clients,
                   running, total_received, lifespan, batchVars, sweepVars,
                   clientVars, emitted, last_recv>>

\* _send_buzzer_vibration raises inside its try (connect refused, send on a
\* dropped socket): logged, and _send_alert goes on to broadcast the alert
NotifyFailed ==
    /\ pc \in {"notify_connect", "notify_sleep"}
    /\ notify_failed' = TRUE
    /\ StartBroadcast(AlertMsg(alerts[aidx], clock), emitted)
    /\ UNCHANGED <<unitVars, startVars, clock, target_tag_id, engineVars,
                   dashboard_clients, running, total_received, lifespan,
                   tags, target_tags, idx, alerts, aidx, clientVars,
                   last_recv>>

\* the sleep is over: disable request, close, and _send_alert broadcasts
NotifyDone ==
    /\ pc = "notify_sleep"
    /\ StartBroadcast(AlertMsg(alerts[aidx], clock), emitted)
    /\ UNCHANGED <<unitVars, startVars, clock, target_tag_id, engineVars, dashboard_clients,
                   running, total_received, lifespan, batchVars, clientVars,
                   last_recv>>

\* ------------------------------------------------- _process_location_update
\* the loop body for the record at the head of target_tags, up to its first
\* await
ProcessRecord ==
    /\ pc = "proc"
    /\ LET rec == Head(target_tags)
           pos == <<rec.x, rec.y>>
           items == << <<rec.tag_id, pos>> >>
           r == process_positions(zones, fired, items, clock,
                                  target_tag_ids, retrigger_after_sec)
           hit == {<<r.alerts[i].tag_id, r.alerts[i].zone>> : i \in 1..Len(r.alerts)}
       IN /\ latest_positions' = Put(latest_positions, rec.tag_id, pos)
          /\ geo_latest' = update_latest(geo_latest, items)
          /\ fired' = r.fired
          /\ alerts' = r.alerts
          /\ ev' = [valid |-> TRUE, tag |-> rec.tag_id, pos |-> pos,
                    now |-> clock, alerts |-> r.alerts,
                    prev |-> IF rec.tag_id \in DOMAIN geo_latest
                             THEN <<geo_latest[rec.tag_id]>> ELSE <<>>,
                    alerted_before |-> {n \in ZoneNames :
                                          <<rec.tag_id, n>> \in ever_alerted},
                    fired_before |-> [n \in {m \in ZoneNames :
                                         <<rec.tag_id, m>> \in DOMAIN fired}
                                      |-> fired[<<rec.tag_id, n>>]]]
          /\ ever_alerted' = ever_alerted \cup hit
          /\ IF r.alerts # <<>>
             THEN /\ aidx' = 1
                  /\ pc' = "notify_connect"
                  /\ emitted' = <<>>
                  /\ UNCHANGED sweepVars
             ELSE /\ aidx' = 0
                  /\ StartBroadcast(PositionUpdate(rec, FALSE), <<>>)
    /\ tags' = <<>>
    /\ notify_failed' = FALSE
    /\ UNCHANGED <<unitVars, startVars, clock, target_tag_id, dashboard_clients, running,
                   total_received, lifespan, target_tags, idx, clientVars,
                   last_recv>>

\* _broadcast_to_dashboard returned: the caller's next statement
BroadcastReturn ==
    /\ pc = "bcast_end"
    /\ IF msg.type = "alert"
       THEN IF aidx < Len(alerts)
            THEN /\ aidx' = aidx + 1
                 /\ pc' = "notify_connect"
                 /\ UNCHANGED <<target_tags, idx, sweepVars, emitted>>
            ELSE /\ StartBroadcast(PositionUpdate(Head(target_tags),
                                                  Len(alerts) > 0), emitted)
                 /\ UNCHANGED <<target_tags, idx, aidx>>
       ELSE IF Len(target_tags) > 1
            THEN /\ target_tags' = Tail(target_tags)
                 /\ idx' = idx + 1
                 /\ pc' = "proc"
                 /\ UNCHANGED <<aidx, sweepVars, emitted>>
            ELSE /\ pc' = "loop"
                 /\ UNCHANGED <<target_tags, idx, aidx, sweepVars, emitted>>
    /\ UNCHANGED <<unitVars, startVars, clock, target_tag_id, engineVars, dashboard_clients,
                   running, total_received, lifespan, tags, alerts,
                   notify_failed,
                   clientVars, last_recv>>

\* the RuntimeError of the set iterator leaves _broadcast_to_dashboard,
\* _send_alert and _process_location_update and is caught by the receive
\* loop's "except Exception": logged, continue
BroadcastRaise ==
    /\ pc = "bcast_raise"
    /\ pc' = "loop"
    /\ UNCHANGED <<unitVars, startVars, clock, target_tag_id, engineVars, dashboard_clients,
                   running, total_received, lifespan, batchVars, sweepVars,
                   clientVars, emitted, last_recv>>

\* ---------------------------------------------------- collect_realtime_data
\* the task created by lifespan runs its first step: return when there is no
\* websocket object, else running = True and the first receive
CollectStart ==
    /\ pc = "created"
    /\ IF websocket = "none"
       THEN pc' = "done" /\ running' = running
       ELSE pc' = "recv" /\ running' = TRUE
    /\ auth' = NoAuth
    /\ UNCHANGED <<unitVars, attempt, websocket, tasks, clock, target_tag_id,
                   engineVars, dashboard_clients, total_received, lifespan,
                   batchVars, sweepVars, clientVars, emitted, last_recv>>

\* asyncio.TimeoutError: continue
RecvTimeout ==
    /\ pc = "recv"
    /\ last_recv' = "timeout"
    /\ pc' = "loop"
    /\ UNCHANGED <<unitVars, startVars, clock, target_tag_id, engineVars, dashboard_clients,
                   running, total_received, lifespan, batchVars, sweepVars,
                   clientVars, emitted>>

RecvError_exits ==
    /\ pc = "recv"
    /\ last_recv' = "error"
    /\ pc' = "done"
    /\ UNCHANGED <<unitVars, startVars, clock, target_tag_id, engineVars, dashboard_clients,
                   running, total_received, lifespan, batchVars, sweepVars,
                   clientVars, emitted>>

\* recv raises (connection dropped or closed): except Exception: continue
RecvError ==
    /\ pc = "recv"
    /\ last_recv' = "error"
    /\ pc' = "loop"
    /\ UNCHANGED <<unitVars, startVars, clock, target_tag_id, engineVars, dashboard_clients,
                   running, total_received, lifespan, batchVars, sweepVars,
                   clientVars, emitted>>

\* a frame arrives: parse, count, filter, and hand to the pipeline
RecvFrame ==
    /\ pc = "recv"
    /\ lifespan = "serving"
    /\ \E frame \in Frames :
        LET ts == parse_tag_location_data(frame)
            tt == filter_targets(target_tag_id, ts)
        IN /\ total_received + Len(ts) <= MaxReceived
           /\ tags' = ts
           /\ total_received' = total_received + Len(ts)
           /\ last_recv' = IF ts = <<>> THEN "malformed" ELSE "batch"
           /\ target_tags' = tt
           /\ IF tt # <<>>
              THEN idx' = 1 /\ pc' = "proc"
              ELSE idx' = 0 /\ pc' = "loop"
    /\ UNCHANGED <<unitVars, startVars, clock, target_tag_id, engineVars, dashboard_clients,
                   running, lifespan, alerts, aidx, notify_failed, sweepVars,
                   clientVars,
                   emitted>>

\* "while self.running": the next receive, or the finally clause
WhileCheck ==
    /\ pc = "loop"
    /\ pc' = IF running THEN "recv" ELSE "done"
    /\ running' = running
    /\ tags' = <<>> /\ target_tags' = <<>> /\ idx' = 0
    /\ alerts' = <<>> /\ aidx' = 0 /\ notify_failed' = FALSE
    /\ msg' = NoMsg /\ it_size' = 0 /\ it_start' = {} /\ visited' = {}
    /\ disconnected' = {} /\ cur' = 0 /\ delivered' = {}
    /\ ev' = NoEv
    /\ emitted' = <<>>
    /\ UNCHANGED <<unitVars, startVars, clock, target_tag_id, fired, geo_latest, latest_positions,
                   ever_alerted, dashboard_clients, total_received, lifespan,
                   clientVars, last_recv>>

\* ------------------------------------------------------------- disconnect()
\* disconnect() on a client [running, websocket]: running = False, and the
\* socket is closed when there is a websocket object.  close() on a socket
\* that is already closed returns without effect.  raised: an exception
\* leaves the call.
disconnect_raises_when_closed(c) ==
    [running |-> FALSE,
     websocket |-> IF c.websocket = "none" THEN "none" ELSE "closed",
     raised |-> c.websocket = "closed"]

disconnect(c) ==
    [running |-> FALSE,
     websocket |-> IF c.websocket = "none" THEN "none" ELSE "closed",
     raised |-> FALSE]

\* lifespan's shutdown half: await app_state.uwb_collector.disconnect()
Disconnect ==
    /\ Yielded
    /\ lifespan = "serving"
    /\ lifespan' = "shutdown"
    /\ LET r == disconnect([running |-> running, websocket |-> websocket])
       IN /\ running' = r.running
          /\ websocket' = r.websocket
    /\ UNCHANGED <<unitVars, attempt, tasks, auth, clock, target_tag_id, engineVars,
                   dashboard_clients, total_received, pc, batchVars,
                   sweepVars, clientVars, emitted, last_recv>>

\* ----------------------------------------------------------------- startup
\* authenticate(): False without a websocket object; otherwise True, whether
\* the reply came or the try block raised (timeout or error)
authenticate_strict(ws, outcome) ==
    IF ws = "none" THEN FALSE
    ELSE outcome = "reply"

authenticate(ws, outcome) ==
    IF ws = "none" THEN FALSE
    ELSE IF outcome = "reply" THEN TRUE
    ELSE TRUE

otherStartup == <<unitVars, clock, target_tag_id, engineVars, dashboard_clients, running,
                  total_received, batchVars, sweepVars, clientVars, emitted,
                  last_recv>>

\* connect() returns True: self.websocket is set
ConnectOk ==
    /\ lifespan = "connect"
    /\ websocket' = "open"
    /\ lifespan' = "auth"
    /\ UNCHANGED <<attempt, tasks, auth, pc, otherStartup>>

ConnectFail_forever ==
    /\ lifespan = "connect"
    /\ lifespan' = "retry_sleep"
    /\ UNCHANGED <<attempt, websocket, tasks, auth, pc, otherStartup>>

\* connect() returns False: sleep before the next attempt, or give up after
\* the last one and go on to the yield
ConnectFail ==
    /\ lifespan = "connect"
    /\ IF attempt < max_retries
       THEN lifespan' = "retry_sleep" /\ attempt' = attempt
       ELSE lifespan' = "serving" /\ attempt' = 0
    /\ UNCHANGED <<websocket, tasks, auth, pc, otherStartup>>

\* asyncio.sleep(retry_delay) is over: the next iteration of the for loop
RetrySleepDone ==
    /\ lifespan = "retry_sleep"
    /\ attempt' = attempt + 1
    /\ lifespan' = "connect"
    /\ UNCHANGED <<websocket, tasks, auth, pc, otherStartup>>

\* authenticate() returns (its result is not read): create_task, break, yield
AuthDone ==
    /\ lifespan = "auth"
    /\ \E o \in AuthOutcomes :
          auth' = [outcome |-> o, ok |-> authenticate(websocket, o)]
    /\ tasks' = tasks + 1
    /\ pc' = "created"
    /\ attempt' = 0
    /\ lifespan' = "serving"
    /\ UNCHANGED <<websocket, otherStartup>>

StartupNext ==
    \/ ConnectOk
    \/ ConnectFail
    \/ RetrySleepDone
    \/ AuthDone

\* ------------------------------------------------------ websocket_dashboard
\* accept, then dashboard_clients.add(websocket), then the initial_state
\* message InitialState(DANGER_ZONES, latest_positions) is built and its
\* send_json awaited
WsConnect(c) ==
    /\ Yielded
    /\ hstate[c] = "new"
    /\ \A d \in Clients : d < c => hstate[d] # "new"
    /\ hstate' = [hstate EXCEPT ![c] = "init"]
    /\ dashboard_clients' = dashboard_clients \cup {c}
    /\ UNCHANGED <<unitVars, startVars, clock, target_tag_id, engineVars, running, total_received,
                   lifespan, pc, batchVars, sweepVars, chan, emitted,
                   last_recv>>

\* the initial_state message is out; the handler waits in receive_text
WsInitialSent(c) ==
    /\ Yielded
    /\ hstate[c] = "init"
    /\ chan[c] = "open"
    /\ hstate' = [hstate EXCEPT ![c] = "listen"]
    /\ UNCHANGED <<unitVars, startVars, clock, target_tag_id, engineVars, dashboard_clients,
                   running, total_received, lifespan, pc, batchVars,
                   sweepVars, chan, emitted, last_recv>>

\* the peer goes away: from now on sends to it fail
ClientBreaks(c) ==
    /\ Yielded
    /\ hstate[c] \in {"init", "listen"}
    /\ chan[c] = "open"
    /\ chan' = [chan EXCEPT ![c] = "broken"]
    /\ UNCHANGED <<unitVars, startVars, clock, target_tag_id, engineVars, dashboard_clients,
                   running, total_received, lifespan, pc, batchVars,
                   sweepVars, hstate, emitted, last_recv>>

\* except WebSocketDisconnect: dashboard_clients.discard(websocket)
WsDisconnect(c) ==
    /\ Yielded
    /\ hstate[c] \in {"init", "listen"}
    /\ chan[c] = "broken"
    /\ hstate' = [hstate EXCEPT ![c] = "closed"]
    /\ dashboard_clients' = dashboard_clients \ {c}
    /\ UNCHANGED <<unitVars, startVars, clock, target_tag_id, engineVars, running, total_received,
                   lifespan, pc, batchVars, sweepVars, chan, emitted,
                   last_recv>>

\* --------------------------------------------------------------------- Next
IngestNext ==
    \/ CollectStart
    \/ RecvTimeout
    \/ RecvError
    \/ RecvFrame
    \/ WhileCheck
    \/ ProcessRecord
    \/ NotifyConnected
    \/ NotifyFailed
    \/ NotifyDone
    \/ SweepNext
    \/ SendOk
    \/ SendFail
    \/ BroadcastReturn
    \/ BroadcastRaise

\* The whole program with time passing and one dashboard.
Next ==
    \/ StartupNext
    \/ IngestNext
    \/ SendStall
    \/ Tick
    \/ Disconnect
    \/ \E c \in Solo : WsConnect(c)
    \/ \E c \in Solo : WsInitialSent(c)
    \/ \E c \in Solo : ClientBreaks(c)
    \/ \E c \in Solo : WsDisconnect(c)

Spec == Init /\ [][Next]_vars

\* The whole program with every dashboard, within one clock second.
NextFanout ==
    \/ StartupNext
    \/ IngestNext
    \/ SendStall
    \/ Disconnect
    \/ \E c \in Clients : WsConnect(c)
    \/ \E c \in Clients : WsInitialSent(c)
    \/ \E c \in Clients : ClientBreaks(c)
    \/ \E c \in Clients : WsDisconnect(c)

SpecFanout == Init /\ [][NextFanout]_vars

\* The geofence engine alone, constructed with an allow-list (or none) and
\* called with dicts of one or two tags, within one clock second.
AllowLists == {{}, {1}, {2}}

\* the configured zone alone, and with a second zone that shares the line
\* x = 1 with it
ZoneLists ==
    {DANGER_ZONES,
     DANGER_ZONES \o << [min_x |-> 0, min_y |-> 1, max_x |-> 1, max_y |-> 3,
                         name |-> "B"] >>}

RetriggerChoices == {RETRIGGER_AFTER_SEC, RETRIGGER_AFTER_SEC + 1}

PositionDicts ==
    {items \in UNION {[1..n -> TagIds \X Points] : n \in 1..2} :
        \A i, j \in 1..Len(items) : i # j => items[i][1] # items[j][1]}

InitEngine ==
    /\ Constructed
    /\ DecodeIdle
    /\ ZoneIdle
    /\ CrcIdle
    /\ zones \in ZoneLists
    /\ retrigger_after_sec \in RetriggerChoices
    /\ target_tag_ids \in AllowLists
    /\ call = NoCall

EngineCall ==
    \E items \in PositionDicts :
        LET r == process_positions(zones, fired, items, clock,
                                   target_tag_ids, retrigger_after_sec)
        IN /\ geo_latest' = update_latest(geo_latest, items)
           /\ fired' = r.fired
           /\ call' = [valid |-> TRUE, positions |-> items, now |-> clock,
                       alerts |-> r.alerts, fired_before |-> fired,
                       latest_before |-> geo_latest]
           /\ UNCHANGED <<decodeVars, zoneVars, crcVars, zones,
                          retrigger_after_sec, target_tag_ids, startVars, clock,
                          target_tag_id, latest_positions, ev, ever_alerted,
                          dashboard_clients, running, total_received,
                          lifespan, pc, batchVars, sweepVars, clientVars,
                          emitted, last_recv>>

\* time passes between two calls
EngineTick ==
    /\ clock < MaxTime
    /\ clock' = clock + 1
    /\ UNCHANGED <<unitVars, startVars, target_tag_id, engineVars,
                   dashboard_clients, running, total_received, lifespan, pc,
                   batchVars, sweepVars, clientVars, emitted, last_recv>>

NextEngine ==
    \/ EngineCall
    \/ EngineTick

SpecEngine == InitEngine /\ [][NextEngine]_vars

\* Zone alone: one construction from sample bounds, then one point tested
\* against the zone and given to a fresh engine that has only this zone.
ZoneCoords == 0..3

ZoneInit ==
    /\ Constructed
    /\ DecodeIdle
    /\ EngineIdle
    /\ CrcIdle
    /\ zone_args \in [min_x : ZoneCoords, min_y : ZoneCoords,
                      max_x : ZoneCoords, max_y : ZoneCoords]
    /\ zone_made = NoZone
    /\ probe = NoProbe

programVars == <<startVars, clock, target_tag_id, engineVars,
                 dashboard_clients, running, total_received, lifespan, pc,
                 batchVars, sweepVars, clientVars, emitted, last_recv>>

ZoneConstruct ==
    /\ zone_made = NoZone
    /\ zone_made' = Zone(zone_args.min_x, zone_args.min_y, zone_args.max_x,
                         zone_args.max_y, "Z")
    /\ UNCHANGED <<zone_args, probe, decodeVars, engineUnitVars, crcVars,
                   programVars>>

ZoneProbe ==
    /\ zone_made.ok
    /\ probe = NoProbe
    /\ \E x \in ZoneCoords, y \in ZoneCoords :
          LET zone == zone_made.zone
              r == process_positions(<<zone>>, EmptyMap, << <<1, <<x, y>>>> >>,
                                     clock, {}, RETRIGGER_AFTER_SEC)
          IN probe' = [valid |-> TRUE, x |-> x, y |-> y,
                       inside |-> contains_point(zone, x, y),
                       alerts |-> r.alerts, fired |-> r.fired]
    /\ UNCHANGED <<zone_args, zone_made, decodeVars, engineUnitVars, crcVars,
                   programVars>>

NextZone ==
    \/ ZoneConstruct
    \/ ZoneProbe

SpecZone == ZoneInit /\ [][NextZone]_vars

\* The checksum alone on each sample byte string, and the auth packet built
\* from each sample credential.
InitCrc ==
    /\ Constructed
    /\ DecodeIdle
    /\ EngineIdle
    /\ ZoneIdle
    /\ crc_data \in CrcSampleData
    /\ crc = NoCrc
    /\ credentials \in [username : SampleUsernames, digest : SampleDigests]
    /\ auth_packet = NoPacket

CrcCall ==
    /\ crc = NoCrc
    /\ crc' = calculate_crc16_modbus(crc_data)
    /\ UNCHANGED <<crc_data, credentials, auth_packet, decodeVars,
                   engineUnitVars, zoneVars, programVars>>

CreateAuthPacket ==
    /\ auth_packet = NoPacket
    /\ auth_packet' = create_auth_packet(credentials.username,
                                         credentials.digest)
    /\ UNCHANGED <<crc_data, crc, credentials, decodeVars, engineUnitVars,
                   zoneVars, programVars>>

NextCrc ==
    \/ CrcCall
    \/ CreateAuthPacket

SpecCrc == InitCrc /\ [][NextCrc]_vars

\* The decoder alone, applied to each sample byte string.
InitDecode ==
    /\ Constructed
    /\ EngineIdle
    /\ ZoneIdle
    /\ CrcIdle
    /\ data \in SampleData
    /\ decoded = NoResult

Decode ==
    /\ decoded = NoResult
    /\ decoded' = parse_tag_location_bytes(data)
    /\ UNCHANGED <<data, engineUnitVars, zoneVars, crcVars, startVars, clock,
                   target_tag_id, engineVars, dashboard_clients, running,
                   total_received, lifespan, pc, batchVars, sweepVars,
                   clientVars, emitted, last_recv>>

NextDecode == Decode

SpecDecode == InitDecode /\ [][NextDecode]_vars

\* The one-dashboard program within one clock second, with every delivery
\* either completing or failing, under the event loop's scheduling: a task
\* that can take a step is eventually run (a receive ends within its timeout,
\* a sleep ends, a connect attempt succeeds or fails).
NextLive ==
    \/ StartupNext
    \/ IngestNext
    \/ Disconnect
    \/ \E c \in Solo : WsConnect(c)
    \/ \E c \in Solo : WsInitialSent(c)
    \/ \E c \in Solo : ClientBreaks(c)
    \/ \E c \in Solo : WsDisconnect(c)

SpecLive ==
    Init /\ [][NextLive]_vars /\ WF_vars(IngestNext) /\ WF_vars(StartupNext)

\* ------------------------------------------------------------------ claims
Zones == {DANGER_ZONES[i] : i \in 1..Len(DANGER_ZONES)}

Inside(zone, pos) == contains_point(zone, pos[1], pos[2])

\* how many alerts of the evaluated record name the zone
AlertCount(zone) ==
    Cardinality({i \in 1..Len(ev.alerts) :
                    /\ ev.alerts[i].tag_id = ev.tag
                    /\ ev.alerts[i].zone = zone.name})

\* C1: retrigger window.  For an evaluation of a tag inside a zone: if it is
\* the tag's first evaluation it emits exactly one alert for the pair; if the
\* tag's previous evaluation was inside too, an entry last_fired exists and
\* the evaluation emits one alert when now - last_fired >= retrigger interval
\* and none otherwise; an emitted alert sets last_fired to now.
C1_RetriggerWindow ==
    ev.valid =>
        \A z \in Zones :
            Inside(z, ev.pos) =>
                /\ ev.prev = <<>> => AlertCount(z) = 1
                /\ (ev.prev # <<>> /\ Inside(z, ev.prev[1])) =>
                       /\ z.name \in DOMAIN ev.fired_before
                       /\ AlertCount(z) =
                            IF ev.now - ev.fired_before[z.name]
                                   >= RETRIGGER_AFTER_SEC
                            THEN 1 ELSE 0
                /\ AlertCount(z) >= 1 =>
                       /\ <<ev.tag, z.name>> \in DOMAIN fired
                       /\ fired[<<ev.tag, z.name>>] = ev.now

\* a tag that stayed inside is evaluated retrigger interval + 1 after its
\* last alert and fires again
C1_Witness ==
    /\ ev.valid
    /\ \E z \in Zones :
        /\ Inside(z, ev.pos)
        /\ ev.prev # <<>> /\ Inside(z, ev.prev[1])
        /\ z.name \in DOMAIN ev.fired_before
        /\ ev.now - ev.fired_before[z.name] = RETRIGGER_AFTER_SEC + 1
        /\ AlertCount(z) = 1
        /\ fired[<<ev.tag, z.name>>] = ev.now

\* C2: hysteresis reset.  An evaluation inside a zone whose tag's previous
\* evaluation was outside that zone emits an alert for the pair, whatever the
\* time since the pair's previous alert.
C2_ResetOnReentry ==
    (ev.valid /\ ev.prev # <<>>) =>
        \A z \in Zones :
            (~Inside(z, ev.prev[1]) /\ Inside(z, ev.pos)) => AlertCount(z) = 1

\* the pair was alerted before, the tag left and is back inside before the
\* retrigger interval can have passed, and the alert is emitted
C2_Witness ==
    /\ ev.valid /\ ev.prev # <<>>
    /\ \E z \in Zones :
        /\ ~Inside(z, ev.prev[1]) /\ Inside(z, ev.pos)
        /\ z.name \in ev.alerted_before
        /\ ev.now < RETRIGGER_AFTER_SEC
        /\ AlertCount(z) = 1

\* C3: an entry of the hysteresis state exists only for a pair whose tag's
\* most recently evaluated position is inside the zone, and an evaluation
\* outside the zone leaves no entry for the pair.
C3_EntryOnlyWhileInside ==
    /\ \A key \in DOMAIN fired :
          /\ key[1] \in DOMAIN geo_latest
          /\ Inside(ZoneByName(key[2]), geo_latest[key[1]])
    /\ ev.valid =>
          \A z \in Zones :
              ~Inside(z, ev.pos) => <<ev.tag, z.name>> \notin DOMAIN fired

\* an evaluation outside the zone found an entry and removed it
C3_Witness ==
    /\ ev.valid
    /\ \E z \in Zones :
        /\ ~Inside(z, ev.pos)
        /\ z.name \in DOMAIN ev.fired_before
        /\ <<ev.tag, z.name>> \notin DOMAIN fired

\* C4: when a delivery to a subscriber stalls, the ingestion task can still
\* take its next step (deliver to the other subscribers, receive again).
C4_NeverBlocksOnSubscriber ==
    pc = "send_stalled" => ENABLED IngestNext

\* C5: while a notification is in progress, the ingestion task can receive
\* the next frame.
C5_NotificationIsConcurrent ==
    pc \in {"notify_connect", "notify_sleep"} =>
        ENABLED (RecvTimeout \/ RecvError \/ RecvFrame)

\* C6: a subscriber connecting or disconnecting during a publish sweep never
\* makes the sweep fail, and every subscriber that was in the set when the
\* sweep began and is still connected has been attempted when it ends.
C6_SweepSerialized ==
    /\ pc # "bcast_raise"
    /\ pc = "bcast_end" =>
          \A c \in it_start :
              (hstate[c] \in {"init", "listen"} /\ chan[c] = "open")
                  => c \in visited

\* C7: when a publish call ends, every subscriber of the set it started with
\* was attempted (unless it disconnected meanwhile), every attempted subscriber
\* whose delivery did not fail received the event, and every subscriber whose
\* delivery failed is absent from the set.
C7_PublishReapsFailed ==
    pc \in {"bcast_end", "bcast_raise"} =>
        /\ \A c \in it_start : c \in visited \/ hstate[c] = "closed"
        /\ (visited \ disconnected) \subseteq delivered
        /\ disconnected \cap dashboard_clients = {}

\* C8: target-tag filtering.  With a non-zero target id only records of that
\* tag are forwarded, and nothing the pipeline writes or publishes (latest
\* positions, evaluations, hysteresis entries, events) is about another tag;
\* with target id 0 the forwarded batch is the whole decoded batch.
C8_TargetFilter ==
    /\ target_tag_id # 0 =>
          /\ tags # <<>> =>
                target_tags = SelectSeq(tags, LAMBDA t : t.tag_id = target_tag_id)
          /\ \A i \in 1..Len(target_tags) : target_tags[i].tag_id = target_tag_id
          /\ DOMAIN latest_positions \subseteq {target_tag_id}
          /\ DOMAIN geo_latest \subseteq {target_tag_id}
          /\ \A key \in DOMAIN fired : key[1] = target_tag_id
          /\ ev.valid => ev.tag = target_tag_id
          /\ msg.type # "none" => msg.tag_id = target_tag_id
          /\ \A i \in 1..Len(emitted) : emitted[i].tag_id = target_tag_id
    /\ (target_tag_id = 0 /\ tags # <<>>) => target_tags = tags

\* a decoded batch mixing the target tag with another tag has been filtered
\* down to the target tag's record, which the pipeline is about to process
C8_Witness ==
    /\ target_tag_id # 0
    /\ pc = "proc"
    /\ Len(tags) = 2
    /\ \E i \in 1..Len(tags) : tags[i].tag_id # target_tag_id
    /\ Len(target_tags) = 1
    /\ target_tags[1].tag_id = target_tag_id

\* C9: a single-record batch whose position is inside exactly one zone, with
\* no prior entry for the pair, yields exactly one alert event for the pair
\* and exactly one position_update with in_danger_zone = TRUE.
C9_EndToEnd ==
    (/\ pc = "loop" /\ ev.valid
     /\ target_tag_id = 0 /\ idx = 1 /\ Len(target_tags) = 1
     /\ Cardinality({z \in Zones : Inside(z, ev.pos)}) = 1
     /\ \A z \in Zones : Inside(z, ev.pos) => z.name \notin DOMAIN ev.fired_before)
    =>
        LET z == CHOOSE zz \in Zones : Inside(zz, ev.pos)
        IN emitted = << [type |-> "alert", tag_id |-> ev.tag,
                         zone_name |-> z.name],
                        [type |-> "position_update", tag_id |-> ev.tag,
                         in_danger_zone |-> TRUE] >>

\* C10: a receive timeout, a receive error or a malformed frame never ends the
\* loop: from the receive the task goes to the loop test or the pipeline, from
\* the loop test after such a receive it goes to the next receive while the
\* running flag is set, and it exits only after disconnect() was called.
C10_LoopSurvives ==
    [][/\ pc = "recv" => pc' \in {"recv", "loop", "proc"}
       /\ (pc = "loop" /\ running
             /\ last_recv \in {"timeout", "error", "malformed"})
            => pc' \in {"loop", "recv"}
       /\ (pc # "done" /\ pc' = "done") => lifespan = "shutdown"]_vars

\* the loop awaits another receive after a receive error
C10_Witness ==
    /\ pc = "recv"
    /\ running
    /\ last_recv = "error"

\* C11: once disconnect() has been called with the streaming task created
\* (whether or not the task has taken its first step), the receive loop
\* eventually exits and from then on the running flag is false.
C11_ShutdownStops ==
    (lifespan = "shutdown" /\ tasks > 0) ~> [](pc = "done" /\ ~running)

\* C12: startup makes at most max_retries connect attempts; the streaming
\* task is created at most once, and only by the step that follows a
\* successful connect and the authenticate call; and startup always completes
\* (the server goes on to accept subscribers), also when every attempt fails.
C12_BoundedRetry ==
    /\ [](/\ attempt \in 0..max_retries
          /\ tasks <= 1
          /\ tasks = 1 => websocket # "none"
          /\ pc # "none" => tasks = 1)
    /\ [][tasks' # tasks =>
            (/\ lifespan = "auth" /\ websocket = "open"
             /\ tasks' = 1 /\ lifespan' = "serving")]_vars
    /\ [][(lifespan = "connect" /\ lifespan' = "serving") =>
            (attempt = max_retries /\ tasks' = 0)]_vars
    /\ <>Started

\* every connect attempt failed; startup completed without a streaming task,
\* and a subscriber has connected and been sent its snapshot
C12_Witness ==
    /\ Started
    /\ tasks = 0 /\ pc = "none" /\ websocket = "none"
    /\ \E c \in Clients : hstate[c] = "listen"

\* C13: at most one ingestion task exists; the hysteresis state and the
\* latest-position maps change only in a step of that task's pipeline; and
\* when the task goes back to receive, the batch it decoded is finished:
\* every forwarded record was evaluated and its position_update published,
\* and nothing of the batch is left in progress.
C13_SingleWriter ==
    /\ [](tasks <= 1)
    /\ [][(fired' # fired \/ geo_latest' # geo_latest
            \/ latest_positions' # latest_positions) => pc = "proc"]_vars
    /\ []((pc = "loop" /\ target_tags # <<>>) =>
            /\ Len(target_tags) = 1
            /\ ev.valid /\ ev.tag = Head(target_tags).tag_id
            /\ emitted # <<>>
            /\ emitted[Len(emitted)].type = "position_update")
    /\ [](pc = "recv" => (tags = <<>> /\ target_tags = <<>>))

\* C13, the parts about the single writer and the order of steps only.
C13_Serial ==
    /\ [](tasks <= 1)
    /\ [][(fired' # fired \/ geo_latest' # geo_latest
            \/ latest_positions' # latest_positions) => pc = "proc"]_vars
    /\ [](pc = "recv" => (tags = <<>> /\ target_tags = <<>>))

\* C14: with a transport open, authenticate() returns True however the
\* exchange ended (reply, timeout, error), and startup has gone on to create
\* the streaming task.
C14_LenientAuth ==
    auth.outcome # "none" =>
        /\ auth.ok
        /\ websocket # "none"
        /\ tasks = 1
        /\ pc = "created"
        /\ Started

\* the device did not reply within the timeout, authenticate() reported
\* success and the streaming task exists
C14_Witness ==
    /\ auth.outcome = "timeout"
    /\ auth.ok
    /\ pc = "created"

\* C15: disconnect() is idempotent.  From the client's current state, a first
\* call raises nothing and leaves running = false and no open transport; a
\* second call raises nothing and leaves the same state.
C15_DisconnectIdempotent ==
    LET r1 == disconnect([running |-> running, websocket |-> websocket])
        r2 == disconnect([running |-> r1.running, websocket |-> r1.websocket])
    IN /\ ~r1.raised /\ ~r1.running /\ r1.websocket # "open"
       /\ ~r2.raised
       /\ r2.running = r1.running
       /\ r2.websocket = r1.websocket
       /\ lifespan = "shutdown" => websocket = r1.websocket

\* disconnect() has been called on a client with an open transport: a second
\* call finds the transport closed
C15_Witness ==
    /\ lifespan = "shutdown"
    /\ websocket = "closed"
    /\ ~running

\* C16: a subscriber receives initial_state before any position_update or
\* alert (no sweep has delivered to a subscriber whose initial_state is still
\* being sent), and the initial_state built for a connecting subscriber holds
\* every configured zone and, for every tag the engine has processed, the
\* tag's latest position.
C16_SnapshotFirst ==
    /\ \A c \in delivered : hstate[c] # "init"
    /\ Yielded =>
          LET m == InitialState(DANGER_ZONES, latest_positions)
          IN /\ {m.zones[i].name : i \in DOMAIN m.zones} = ZoneNames
             /\ \A t \in DOMAIN geo_latest :
                   /\ t \in DOMAIN m.positions
                   /\ m.positions[t] = geo_latest[t]

\* C16, the part about the content of initial_state only.
C16_SnapshotContent ==
    Yielded =>
        LET m == InitialState(DANGER_ZONES, latest_positions)
        IN /\ {m.zones[i].name : i \in DOMAIN m.zones} = ZoneNames
           /\ \A t \in DOMAIN geo_latest :
                 /\ t \in DOMAIN m.positions
                 /\ m.positions[t] = geo_latest[t]

\* C17: decoding never raises and returns a sequence; the sequence is empty
\* when the length is below 5, the header is not 0xCC5F, the type byte is not
\* 0x81, 0xB4 or 0xB5, the declared tag count is 0, or the length is below
\* 4 + count * 23 + 4.
C17_DecodeFailsSoft ==
    decoded # NoResult =>
        /\ ~decoded.raised
        /\ DOMAIN decoded.tags = 1..Len(decoded.tags)
        /\ (\/ Len(data) < 5
            \/ unpack_H(data, 0) # 52319
            \/ At(data, 2) \notin {129, 180, 181}
            \/ At(data, 3) = 0
            \/ Len(data) < 4 + At(data, 3) * 23 + 4)
           => decoded.tags = <<>>

\* a frame with the right header and type that declares two records but is
\* cut short was decoded to the empty sequence
C17_Witness ==
    /\ decoded # NoResult
    /\ Len(data) >= 5
    /\ unpack_H(data, 0) = 52319
    /\ At(data, 2) = 129
    /\ At(data, 3) = 2
    /\ Len(data) < 54
    /\ decoded.tags = <<>>

\* C18: when the tag of the record just evaluated appears again later in the
\* same batch, the evaluation emitted no alert and left the tag's hysteresis
\* entries as they were: only the tag's last position is evaluated.
C18_LastPositionWins ==
    (/\ ev.valid /\ pc # "proc"
     /\ target_tags # <<>> /\ Head(target_tags).tag_id = ev.tag
     /\ \E i \in 2..Len(target_tags) : target_tags[i].tag_id = ev.tag)
    =>
        /\ ev.alerts = <<>>
        /\ \A n \in ZoneNames :
              /\ (<<ev.tag, n>> \in DOMAIN fired) <=> (n \in DOMAIN ev.fired_before)
              /\ n \in DOMAIN ev.fired_before =>
                    fired[<<ev.tag, n>>] = ev.fired_before[n]

\* C19: after a notification for an alert of the record in progress failed,
\* the ingestion task is still in the pipeline or back at the loop test, the
\* alert has been published, the hysteresis entry recorded for the alert is
\* unchanged, and when the record is over its position_update has been
\* published as the last event.
C19_NotifyFailureAbsorbed ==
    notify_failed =>
        /\ pc \in {"bcast", "send", "send_stalled", "bcast_end", "bcast_raise",
                   "loop", "proc"}
        /\ ev.valid /\ ev.alerts # <<>>
        /\ \E i \in 1..Len(emitted) :
              /\ emitted[i].type = "alert"
              /\ emitted[i].tag_id = ev.tag
        /\ \A i \in 1..Len(ev.alerts) :
              LET key == <<ev.alerts[i].tag_id, ev.alerts[i].zone>>
              IN key \in DOMAIN fired /\ fired[key] = ev.now
        /\ pc \in {"loop", "proc"} =>
              emitted[Len(emitted)] =
                  [type |-> "position_update", tag_id |-> ev.tag,
                   in_danger_zone |-> TRUE]

\* C19, without the requirement that the record's publishing runs to its end.
C19_AbsorbedUpToPublish ==
    notify_failed =>
        /\ pc \in {"bcast", "send", "send_stalled", "bcast_end", "bcast_raise",
                   "loop", "proc"}
        /\ ev.valid /\ ev.alerts # <<>>
        /\ \E i \in 1..Len(emitted) :
              /\ emitted[i].type = "alert"
              /\ emitted[i].tag_id = ev.tag
        /\ \A i \in 1..Len(ev.alerts) :
              LET key == <<ev.alerts[i].tag_id, ev.alerts[i].zone>>
              IN key \in DOMAIN fired /\ fired[key] = ev.now
        /\ pc = "bcast_end" /\ msg.type = "alert" /\ aidx = Len(alerts) =>
              ENABLED BroadcastReturn

\* the names of the zones of the engine exercised on its own
EngineZoneNames == {zones[i].name : i \in 1..Len(zones)}

\* C20: with an allow-list configured, a tag of the positions dict that is
\* not in the list yields no alert and leaves the engine's state for that tag
\* as it was: its hysteresis entries and its latest-position entry.
C20_AllowListSkipsEntirely ==
    (call.valid /\ target_tag_ids # {}) =>
        \A j \in 1..Len(call.positions) :
            LET t == call.positions[j][1]
            IN t \notin target_tag_ids =>
                /\ \A i \in 1..Len(call.alerts) : call.alerts[i].tag_id # t
                /\ \A n \in EngineZoneNames :
                      /\ (<<t, n>> \in DOMAIN fired)
                            <=> (<<t, n>> \in DOMAIN call.fired_before)
                      /\ <<t, n>> \in DOMAIN fired =>
                            fired[<<t, n>>] = call.fired_before[<<t, n>>]
                /\ (t \in DOMAIN geo_latest)
                      <=> (t \in DOMAIN call.latest_before)
                /\ t \in DOMAIN geo_latest =>
                      geo_latest[t] = call.latest_before[t]

\* C20, without the latest-position entry: a tag outside the allow-list
\* yields no alert and no hysteresis change.
C20_AllowListNoEvaluation ==
    (call.valid /\ target_tag_ids # {}) =>
        \A j \in 1..Len(call.positions) :
            LET t == call.positions[j][1]
            IN t \notin target_tag_ids =>
                /\ \A i \in 1..Len(call.alerts) : call.alerts[i].tag_id # t
                /\ \A n \in EngineZoneNames :
                      /\ (<<t, n>> \in DOMAIN fired)
                            <=> (<<t, n>> \in DOMAIN call.fired_before)
                      /\ <<t, n>> \in DOMAIN fired =>
                            fired[<<t, n>>] = call.fired_before[<<t, n>>]

\* C21: for a valid rectangle a point is inside exactly when
\* min_x <= x <= max_x and min_y <= y <= max_y (corners and edges included),
\* and an inside point takes the inside branch of the evaluation: on a fresh
\* engine it is alerted and gets its entry.
C21_ClosedBoundary ==
    probe.valid =>
        LET z == zone_made.zone
            closed == /\ z.min_x <= probe.x /\ probe.x <= z.max_x
                      /\ z.min_y <= probe.y /\ probe.y <= z.max_y
        IN /\ probe.inside <=> closed
           /\ closed => /\ Len(probe.alerts) = 1
                         /\ <<1, z.name>> \in DOMAIN probe.fired
           /\ ~closed => /\ probe.alerts = <<>>
                          /\ probe.fired = EmptyMap

\* the corner (max_x, max_y) of a valid rectangle was tested: inside, alerted
C21_Witness ==
    /\ probe.valid
    /\ probe.x = zone_made.zone.max_x
    /\ probe.y = zone_made.zone.max_y
    /\ probe.inside
    /\ Len(probe.alerts) = 1

RECURSIVE reflect(_, _)
reflect(v, width) ==
    IF width = 0 THEN 0
    ELSE (v % 2) * (2 ^ (width - 1)) + reflect(v \div 2, width - 1)

RECURSIVE ref_shifts(_, _)
ref_shifts(reg, n) ==
    IF n = 0 THEN reg
    ELSE LET shifted == (reg * 2) % 65536
             divided == IF reg >= 32768 THEN xor(shifted, 32773) ELSE shifted
         IN IF divided >= 0 THEN ref_shifts(divided, n - 1) ELSE divided

RECURSIVE ref_loop(_, _, _)
ref_loop(d, k, reg) ==
    IF k > Len(d) THEN reg
    ELSE LET after == ref_shifts(xor(reg, reflect(d[k], 8) * 256), 8)
         IN IF after >= 0 THEN ref_loop(d, k + 1, after) ELSE after

reference_crc16_modbus(d) == reflect(ref_loop(d, 1, 65535), 16)

\* C23: the checksum routine is CRC-16/MODBUS: 0x4B37 for "123456789",
\* 0xFFFF for the empty string, equal to the reference on every sample
\* input, always within 0..0xFFFF; the auth packet carries, big-endian and
\* before the tail, that checksum of the bytes between header and checksum.
C23_CrcModbus ==
    /\ crc # NoCrc =>
          /\ crc \in 0..65535
          /\ crc = reference_crc16_modbus(crc_data)
          /\ crc_data = CheckString => crc = 19255
          /\ crc_data = <<>> => crc = 65535
    /\ auth_packet # NoPacket =>
          LET n == Len(auth_packet)
              body == SubSeq(auth_packet, 3, n - 4)
              carried == auth_packet[n - 3] * 256 + auth_packet[n - 2]
          IN /\ \A i \in 1..n : auth_packet[i] \in 0..255
             /\ SubSeq(auth_packet, 1, 2) = <<204, 95>>
             /\ SubSeq(auth_packet, n - 1, n) = <<170, 187>>
             /\ body = <<39>> \o pack_I(Len(credentials.username))
                           \o credentials.username
                           \o pack_I(32) \o credentials.digest
             /\ carried = reference_crc16_modbus(body)

\* the routine was applied to "123456789" and gave 0x4B37
C23_Witness ==
    /\ crc_data = CheckString
    /\ crc = 19255
    /\ auth_packet # NoPacket

\* C24: when a tag is inside a zone, its entry for the zone exists and
\* now - entry < retrigger_after_sec, the evaluation emits no alert for the
\* pair and leaves the entry with the timestamp it had.
C24_SuppressedNoChange ==
    call.valid =>
        \A j \in 1..Len(call.positions), i \in 1..Len(zones) :
            LET t == call.positions[j][1]
                pos == call.positions[j][2]
                key == <<t, zones[i].name>>
            IN (/\ contains_point(zones[i], pos[1], pos[2])
                /\ key \in DOMAIN call.fired_before
                /\ call.now - call.fired_before[key] < retrigger_after_sec)
               => /\ \A a \in 1..Len(call.alerts) :
                        ~(call.alerts[a].tag_id = t
                            /\ call.alerts[a].zone = zones[i].name)
                  /\ key \in DOMAIN fired
                  /\ fired[key] = call.fired_before[key]

\* a tag stayed inside one second after its alert, within a window of two:
\* no alert, and the entry still holds the earlier time
C24_Witness ==
    /\ call.valid
    /\ \E j \in 1..Len(call.positions), i \in 1..Len(zones) :
          LET t == call.positions[j][1]
              pos == call.positions[j][2]
              key == <<t, zones[i].name>>
          IN /\ ~skipped(target_tag_ids, t)
             /\ contains_point(zones[i], pos[1], pos[2])
             /\ key \in DOMAIN call.fired_before
             /\ call.now - call.fired_before[key] = 1
             /\ retrigger_after_sec = 2
             /\ key \in DOMAIN fired
             /\ fired[key] = call.fired_before[key]
             /\ fired[key] # call.now
             /\ call.alerts = <<>>

\* C25: in every position_update event in_danger_zone is true exactly when
\* the reported position is inside at least one configured zone, also when
\* the alert is suppressed by the retrigger window.
C25_InDangerZoneIsContainment ==
    msg.type = "position_update" =>
        (msg.in_danger_zone <=> \E z \in Zones : Inside(z, <<msg.x, msg.y>>))

\* C25, as far as it holds: while a position_update is being broadcast,
\* in_danger_zone is true exactly when the evaluation of its record emitted
\* an alert, and then the position is inside a zone.
C25_InDangerZoneIsAlerted ==
    (/\ msg.type = "position_update"
     /\ pc \in {"bcast", "send", "send_stalled", "bcast_end"}) =>
        /\ ev.valid /\ ev.pos = <<msg.x, msg.y>> /\ ev.tag = msg.tag_id
        /\ msg.in_danger_zone <=> (ev.alerts # <<>>)
        /\ msg.in_danger_zone => \E z \in Zones : Inside(z, <<msg.x, msg.y>>)

\* C26: the decoder returns no record or exactly as many as the frame
\* declares; the early stop of its loop is never taken; and when the frame
\* is long enough the result is that of its first 4 + tag_count*23 bytes
\* followed by a footer of zeros, whatever the footer and the bytes after it.
C26_AllOrNothing ==
    decoded # NoResult =>
        /\ ~decoded.broke
        /\ Len(data) < 5 => decoded.tags = <<>>
        /\ Len(data) >= 5 =>
              LET tag_count == At(data, 3)
                  used == 4 + tag_count * 23
              IN /\ Len(decoded.tags) \in {0, tag_count}
                 /\ Len(data) >= used + 4 =>
                       decoded.tags =
                           parse_tag_location_bytes(
                               SubSeq(data, 1, used) \o <<0, 0, 0, 0>>).tags

\* a frame that declares one record and carries 23 more bytes and a footer
\* after it was decoded to exactly one record
C26_Witness ==
    /\ decoded # NoResult
    /\ Len(data) = 54
    /\ At(data, 3) = 1
    /\ SubSeq(data, 28, 31) # <<0, 0, 0, 0>>
    /\ SubSeq(data, 51, 54) # <<0, 0, 0, 0>>
    /\ Len(decoded.tags) = 1

\* C27: a call changes a hysteresis entry only for a tag it evaluates and
\* only as that zone's containment requires: entries of tags that are not in
\* the positions, or are skipped, stay as they were; for an evaluated tag
\* the entry of a zone is gone when the position is outside the zone, holds
\* the time of the call when the position is inside and the pair may fire,
\* and is the earlier entry otherwise, whatever the tag's other zones did.
C27_PerPairIndependence ==
    call.valid =>
        LET before == call.fired_before
            evaluated == {call.positions[j][1] : j \in 1..Len(call.positions)}
                            \ {t \in TagIds : skipped(target_tag_ids, t)}
            same(key) == /\ (key \in DOMAIN fired) <=> (key \in DOMAIN before)
                         /\ key \in DOMAIN fired => fired[key] = before[key]
        IN /\ DOMAIN fired \subseteq TagIds \X EngineZoneNames
           /\ \A t \in TagIds \ evaluated, n \in EngineZoneNames :
                 same(<<t, n>>)
           /\ \A j \in 1..Len(call.positions), i \in 1..Len(zones) :
                 LET t == call.positions[j][1]
                     pos == call.positions[j][2]
                     key == <<t, zones[i].name>>
                 IN t \in evaluated =>
                      IF ~contains_point(zones[i], pos[1], pos[2])
                      THEN key \notin DOMAIN fired
                      ELSE IF key \notin DOMAIN before
                              \/ call.now - before[key] >= retrigger_after_sec
                           THEN key \in DOMAIN fired /\ fired[key] = call.now
                           ELSE same(key)

\* with two zones and entries for (1, A), (1, B) and (2, A), tag 1 alone was
\* evaluated inside A and outside B within the window: (1, B) is gone,
\* (1, A) and (2, A) are as they were
C27_Witness ==
    /\ call.valid
    /\ Len(zones) = 2
    /\ Len(call.positions) = 1
    /\ call.positions[1] = <<1, <<2, 2>>>>
    /\ {<<1, "A">>, <<1, "B">>, <<2, "A">>} \subseteq DOMAIN call.fired_before
    /\ DOMAIN fired = DOMAIN call.fired_before \ {<<1, "B">>}
    /\ fired[<<1, "A">>] = call.fired_before[<<1, "A">>]
    /\ fired[<<2, "A">>] = call.fired_before[<<2, "A">>]
    /\ fired[<<1, "A">>] # call.now

====
